---- MODULE Spec2Model ----
(***************************************************************************)
(* A model of src/TimSort.py: SimpleTimSort and the classes and functions  *)
(* it is built from (IncDecRuns, FuseSegments, segments, processSegments,  *)
(* mergeRound, mergeRounds).  Lists are TLA+ sequences; the source's       *)
(* 0-based index k is position k+1 of the sequence.                        *)
(***************************************************************************)
EXTENDS Integers, Sequences, FiniteSets, Bags, TLC

(* ---------------------------------------------------------------------- *)
(* Program constants (src/TimSort.py lines 8-13)                          *)
(* ---------------------------------------------------------------------- *)
Inc == 1
Dec == -1
Unsorted == 0
runThreshold == 32
blockMin == 32
blockMax == 63

(* Python's None, the filler of the auxiliary buffer M (line 177).        *)
(* List elements are naturals, so a negative number is free to stand for  *)
(* it.                                                                    *)
None == -1

(* ---------------------------------------------------------------------- *)
(* Bounds of the input families                                           *)
(* ---------------------------------------------------------------------- *)
MaxLen == 5
MaxVal == 2
MaxBlocks == 3

(* ---------------------------------------------------------------------- *)
(* Helpers for 0-based lists                                              *)
(* ---------------------------------------------------------------------- *)
At(s, k) == s[k + 1]

Put(s, k, v) == [s EXCEPT ![k + 1] = v]

Slice(s, a, b) == SubSeq(s, a + 1, b)

(* The list with the values of the function f on 1..Len(f).               *)
AsList(f) == SubSeq(f, 1, Len(f))

RECURSIVE Concat(_)
Concat(ss) == IF ss = <<>> THEN <<>> ELSE Head(ss) \o Concat(Tail(ss))

(* ---------------------------------------------------------------------- *)
(* class Segment                                                          *)
(* ---------------------------------------------------------------------- *)
Segment(start, end, tag) == [start |-> start, end |-> end, tag |-> tag]

SegLen(seg) == seg.end - seg.start

(* An optional Segment is a sequence of length 0 (None) or 1.             *)
NoSeg == <<>>

Some(seg) == <<seg>>

IsShort(seg) == SegLen(seg) < runThreshold

(* ---------------------------------------------------------------------- *)
(* class IncDecRuns: the fields dir, i, j; L and m = len(L)-1 are fixed   *)
(* ---------------------------------------------------------------------- *)
IDRInit(l) ==
  [dir |-> IF At(l, 1) >= At(l, 0) THEN Inc ELSE Dec, i |-> 0, j |-> 0]

(* The while loop of IncDecRuns.next (lines 45-49): its test, and the     *)
(* position j it reaches.  A loop of the source is run by halving a bound *)
(* n on the number of passes, which keeps the evaluation shallow; the     *)
(* loop stops by its own test, n is never what ends it.                   *)
ScanTest(l, dir, j) ==
  /\ j < Len(l) - 1
  /\ \/ dir = Inc /\ At(l, j) <= At(l, j + 1)
     \/ dir = Dec /\ At(l, j) >= At(l, j + 1)

RECURSIVE ScanLoop(_, _, _, _)
ScanLoop(l, dir, j, n) ==
  IF n = 0 \/ ~ScanTest(l, dir, j) THEN j
  ELSE IF n = 1 THEN j + 1
  ELSE ScanLoop(l, dir, ScanLoop(l, dir, j, n \div 2), n - n \div 2)

ScanRun(l, dir, j) == ScanLoop(l, dir, j, Len(l))

(* Lines 50-54 with the tag of a completed run taken after the flip of    *)
(* the scan direction (self.dir in place of -self.dir).                   *)
IDRrunFlippedTag(l, idr, j) ==
  IF j = Len(l) - 1
  THEN [idr |-> [dir |-> idr.dir, i |-> idr.j, j |-> j],
        seg |-> Some(Segment(idr.j, Len(l), idr.dir))]
  ELSE [idr |-> [dir |-> -idr.dir, i |-> idr.j, j |-> j],
        seg |-> Some(Segment(idr.j, j, -idr.dir))]


(* Lines 50-54, j being where the while loop stopped.                      *)
IDRrun(l, idr, j) ==
  IF j = Len(l) - 1
  THEN [idr |-> [dir |-> idr.dir, i |-> idr.j, j |-> j],
        seg |-> Some(Segment(idr.j, Len(l), idr.dir))]
  ELSE [idr |-> [dir |-> -idr.dir, i |-> idr.j, j |-> j],
        seg |-> Some(Segment(idr.j, j, idr.dir))]

(* IncDecRuns.next: the new fields and the Segment returned (or None).    *)
IDRnext(l, idr) ==
  IF idr.j = Len(l) - 1 THEN [idr |-> idr, seg |-> NoSeg]
  ELSE IDRrun(l, idr, ScanRun(l, idr.dir, idr.j))

IDRfinished(l, idr) == idr.j = Len(l) - 1

(* ---------------------------------------------------------------------- *)
(* class FuseSegments: the fields IDR, next1, next2                       *)
(* ---------------------------------------------------------------------- *)
(* "pulled" lists the Segments IncDecRuns.next returned during the call.  *)
FSInit2(r1, r2) ==
  [idr |-> r2.idr, next1 |-> r1.seg, next2 |-> r2.seg,
   pulled |-> r1.seg \o r2.seg]

FSInit1(l, r1) == FSInit2(r1, IDRnext(l, r1.idr))

FSInit(l) == FSInit1(l, IDRnext(l, IDRInit(l)))

(* The while loop of FuseSegments.next (lines 74-75), on the scanner, on  *)
(* next2 and on the Segments pulled so far.                               *)
PullTest(l, p) == IsShort(p.next2) /\ ~IDRfinished(l, p.idr)

PullAdd(p, r) ==
  [idr |-> r.idr, next2 |-> r.seg[1], pulled |-> p.pulled \o r.seg]

PullBody(l, p) == PullAdd(p, IDRnext(l, p.idr))

RECURSIVE PullLoop(_, _, _)
PullLoop(l, p, n) ==
  IF n = 0 \/ ~PullTest(l, p) THEN p
  ELSE IF n = 1 THEN PullBody(l, p)
  ELSE PullLoop(l, PullLoop(l, p, n \div 2), n - n \div 2)

PullShort(l, idr, n2) ==
  PullLoop(l, [idr |-> idr, next2 |-> n2, pulled |-> <<>>], Len(l))

(* Line 76 with the boundary segment always absorbed.                     *)
fuseEndAbsorbing(n2) == n2.end

(* Line 76: where the fused block ends.                                   *)
fuseEnd(n2) == IF IsShort(n2) THEN n2.end ELSE n2.start

(* Lines 76-79, after the while loop left p (the scanner and next2) and   *)
(* line 78 got q from the scanner, if it asked.                           *)
FSfused(start, p, q) ==
  [idr |-> q.idr,
   next1 |-> IF IsShort(p.next2) THEN NoSeg ELSE Some(p.next2),
   next2 |-> q.seg,
   seg |-> Some(Segment(start, fuseEnd(p.next2), Unsorted)),
   pulled |-> p.pulled \o q.seg]

FSfuse(l, start, p) ==
  FSfused(start, p, IF IsShort(p.next2)
                    THEN [idr |-> p.idr, seg |-> NoSeg]
                    ELSE IDRnext(l, p.idr))

(* Lines 81-83, r being what IncDecRuns.next returned.                    *)
FSpass(fs, r) ==
  [idr |-> r.idr, next1 |-> fs.next2, next2 |-> r.seg,
   seg |-> fs.next1, pulled |-> r.seg]

(* FuseSegments.next fusing whenever next1 is short, whatever next2 is.   *)
FSnextNoLookahead(l, fs) ==
  IF fs.next2 = NoSeg
  THEN [idr |-> fs.idr, next1 |-> NoSeg, next2 |-> NoSeg,
        seg |-> fs.next1, pulled |-> <<>>]
  ELSE IF IsShort(fs.next1[1])
  THEN FSfuse(l, fs.next1[1].start, PullShort(l, fs.idr, fs.next2[1]))
  ELSE FSpass(fs, IDRnext(l, fs.idr))

(* FuseSegments.next: the new fields, the Segment returned (or None) and  *)
(* the Segments pulled from the scanner.                                  *)
FSnext(l, fs) ==
  IF fs.next2 = NoSeg
  THEN [idr |-> fs.idr, next1 |-> NoSeg, next2 |-> NoSeg,
        seg |-> fs.next1, pulled |-> <<>>]
  ELSE IF IsShort(fs.next1[1]) /\ IsShort(fs.next2[1])
  THEN FSfuse(l, fs.next1[1].start, PullShort(l, fs.idr, fs.next2[1]))
  ELSE FSpass(fs, IDRnext(l, fs.idr))

FSfinished(fs) == fs.next1 = NoSeg

(* ---------------------------------------------------------------------- *)
(* segments(L): one pass of the while loop (lines 93-102)                 *)
(* ---------------------------------------------------------------------- *)
(* Line 95: S[-1].end += 1.                                               *)
foldUp(S) == [S EXCEPT ![Len(S)].end = @ + 1]

(* The three branches of the loop body, on the Segment curr.  Line 100    *)
(* reads k (in range(k+1)) on the right-hand side of the assignment that  *)
(* first binds it, so the third branch raises UnboundLocalError before S  *)
(* is touched.                                                            *)
segmentsBody(S, c, fsFinished) ==
  IF SegLen(c) = 1 /\ S # <<>> /\ ~fsFinished
  THEN [S |-> foldUp(S), err |-> FALSE]
  ELSE IF c.tag # Unsorted \/ SegLen(c) <= blockMax
  THEN [S |-> Append(S, c), err |-> FALSE]
  ELSE [S |-> S, err |-> TRUE]

(* ---------------------------------------------------------------------- *)
(* insertSort, reverse, processSegments                                   *)
(* ---------------------------------------------------------------------- *)
(* The inner while loop of insertSort (lines 109-111), on the list and j. *)
ShiftTest(st, start, item) == st.j >= start /\ At(st.l, st.j) > item

ShiftBody(st) == [l |-> Put(st.l, st.j + 1, At(st.l, st.j)), j |-> st.j - 1]

RECURSIVE ShiftLoop(_, _, _, _)
ShiftLoop(st, start, item, n) ==
  IF n = 0 \/ ~ShiftTest(st, start, item) THEN st
  ELSE IF n = 1 THEN ShiftBody(st)
  ELSE ShiftLoop(ShiftLoop(st, start, item, n \div 2), start, item, n - n \div 2)

(* Line 112, after the inner loop.                                        *)
insertPlace(st, item) == Put(st.l, st.j + 1, item)

(* One pass of the for loop of insertSort (lines 108-112).                *)
insertItem(l, start, i) ==
  insertPlace(ShiftLoop([l |-> l, j |-> i - 1], start, At(l, i), Len(l)), At(l, i))

(* The passes i = a, ..., b-1 of the for loop.  (Len(l) < 0 is never     *)
(* true: reading l here has the list of the earlier passes evaluated      *)
(* before the later ones are entered.)                                    *)
RECURSIVE insertRange(_, _, _, _)
insertRange(l, start, a, b) ==
  IF a >= b \/ Len(l) < 0 THEN l
  ELSE IF b = a + 1 THEN insertItem(l, start, a)
  ELSE insertRange(insertRange(l, start, a, a + (b - a) \div 2),
                   start, a + (b - a) \div 2, b)

(* The inner loop stopping one short of the segment's first element.      *)
ShiftTestSkipFirst(st, start, item) == st.j > start /\ At(st.l, st.j) > item

RECURSIVE ShiftLoopSkipFirst(_, _, _, _)
ShiftLoopSkipFirst(st, start, item, n) ==
  IF n = 0 \/ ~ShiftTestSkipFirst(st, start, item) THEN st
  ELSE IF n = 1 THEN ShiftBody(st)
  ELSE ShiftLoopSkipFirst(ShiftLoopSkipFirst(st, start, item, n \div 2),
                          start, item, n - n \div 2)

insertItemSkipFirst(l, start, i) ==
  insertPlace(ShiftLoopSkipFirst([l |-> l, j |-> i - 1], start, At(l, i), Len(l)),
              At(l, i))

RECURSIVE insertRangeSkipFirst(_, _, _, _)
insertRangeSkipFirst(l, start, a, b) ==
  IF a >= b \/ Len(l) < 0 THEN l
  ELSE IF b = a + 1 THEN insertItemSkipFirst(l, start, a)
  ELSE insertRangeSkipFirst(insertRangeSkipFirst(l, start, a, a + (b - a) \div 2),
                            start, a + (b - a) \div 2, b)

insertSortSkipFirst(l, start, end) == insertRangeSkipFirst(l, start, start, end)

insertSort(l, start, end) == insertRange(l, start, start, end)

reverse(l, start, end) ==
  AsList([k \in 1..Len(l) |->
            IF start < k /\ k <= end THEN l[start + end + 1 - k] ELSE l[k]])

(* processSegments with the tags of the two sorted directions exchanged.  *)
RECURSIVE processSegmentsSwapped(_, _)
processSegmentsSwapped(l, sg) ==
  IF sg = <<>> THEN l
  ELSE LET seg == Head(sg)
           l2 == IF seg.tag = Unsorted THEN insertSort(l, seg.start, seg.end)
                 ELSE IF seg.tag = Inc THEN reverse(l, seg.start, seg.end)
                 ELSE l
       IN processSegmentsSwapped(l2, Tail(sg))

RECURSIVE processFrom(_, _)
processFrom(l, sg) ==
  IF sg = <<>> THEN l
  ELSE LET seg == Head(sg)
           l2 == IF seg.tag = Unsorted THEN insertSort(l, seg.start, seg.end)
                 ELSE IF seg.tag = Dec THEN reverse(l, seg.start, seg.end)
                 ELSE l
       IN processFrom(l2, Tail(sg))

processSegments(l, sg) == processFrom(l, sg)

(* ---------------------------------------------------------------------- *)
(* mergeSegments, copySegment, mergeRound                                 *)
(* ---------------------------------------------------------------------- *)
(* The three while loops of mergeSegments (lines 129-143), on M, i and j; *)
(* k = size = i + j throughout.  err is set where Python raises:          *)
(* TypeError on comparing None, IndexError on a write past the end of M.  *)
mergeTest(st, seg1, seg2) ==
  ~st.err /\ (st.i < SegLen(seg1) \/ st.j < SegLen(seg2))

mergeTake1(l, seg1, st, start) ==
  [M |-> Put(st.M, start + st.i + st.j, At(l, seg1.start + st.i)),
   i |-> st.i + 1, j |-> st.j, err |-> FALSE]

mergeTake2(l, seg2, st, start) ==
  [M |-> Put(st.M, start + st.i + st.j, At(l, seg2.start + st.j)),
   i |-> st.i, j |-> st.j + 1, err |-> FALSE]

mergeBody(l, seg1, seg2, st, start) ==
  IF start + st.i + st.j >= Len(st.M) THEN [st EXCEPT !.err = TRUE]
  ELSE IF st.i < SegLen(seg1) /\ st.j < SegLen(seg2)
  THEN IF At(l, seg1.start + st.i) = None \/ At(l, seg2.start + st.j) = None
       THEN [st EXCEPT !.err = TRUE]
       ELSE IF At(l, seg1.start + st.i) <= At(l, seg2.start + st.j)
       THEN mergeTake1(l, seg1, st, start)
       ELSE mergeTake2(l, seg2, st, start)
  ELSE IF st.i < SegLen(seg1)
  THEN mergeTake1(l, seg1, st, start)
  ELSE mergeTake2(l, seg2, st, start)

RECURSIVE mergeLoop(_, _, _, _, _, _)
mergeLoop(l, seg1, seg2, st, start, n) ==
  IF n = 0 \/ ~mergeTest(st, seg1, seg2) THEN st
  ELSE IF n = 1 THEN mergeBody(l, seg1, seg2, st, start)
  ELSE mergeLoop(l, seg1, seg2, mergeLoop(l, seg1, seg2, st, start, n \div 2),
                 start, n - n \div 2)

mergeSegments(l, seg1, seg2, m, start) ==
  mergeLoop(l, seg1, seg2, [M |-> m, i |-> 0, j |-> 0, err |-> FALSE], start,
            SegLen(seg1) + SegLen(seg2))

copySegment(l, seg, m, start) ==
  IF start + SegLen(seg) > Len(m)
  THEN [M |-> m, err |-> TRUE]
  ELSE [M |-> AsList([k \in 1..Len(m) |->
                        IF start < k /\ k <= start + SegLen(seg)
                        THEN l[seg.start + k - start] ELSE m[k]]),
        err |-> FALSE]

(* The while loop of mergeRound (lines 155-158), then lines 159-161.      *)
RECURSIVE mergePairs(_, _, _, _, _)
mergePairsNext(l, sg, r, mergedSegs, i) ==
  IF r.err THEN [segs |-> mergedSegs, M |-> r.M, err |-> TRUE]
  ELSE mergePairs(l, sg, r.M,
                  Append(mergedSegs,
                         Segment(At(sg, i).start, At(sg, i + 1).end, Inc)),
                  i + 2)

mergeOdd(ms, r) == [segs |-> ms, M |-> r.M, err |-> r.err]

mergePairs(l, sg, m, mergedSegs, i) ==
  IF i < Len(sg) - 1
  THEN mergePairsNext(l, sg,
                      mergeSegments(l, At(sg, i), At(sg, i + 1), m,
                                    Len(mergedSegs)),
                      mergedSegs, i)
  ELSE IF Len(sg) % 2 = 1
  THEN mergeOdd(Append(mergedSegs, sg[Len(sg)]),
                copySegment(l, sg[Len(sg)], m, Len(mergedSegs)))
  ELSE [segs |-> mergedSegs, M |-> m, err |-> FALSE]

mergeRound(l, sg, m) == mergePairs(l, sg, m, <<>>, 0)

(* ---------------------------------------------------------------------- *)
(* Inputs: every list over 0..MaxVal of length up to MaxLen, and the      *)
(* lists made of up to MaxBlocks blocks, each ascending, descending or    *)
(* alternating, of one element or of one more than runThreshold           *)
(* ---------------------------------------------------------------------- *)
SmallLists == {AsList(f) : f \in UNION {[1..n -> 0..MaxVal] : n \in 0..MaxLen}}

BlockKinds == {"asc", "desc", "zig"}

BlockLens == {1, runThreshold + 1}

BlockBases == {0, runThreshold + 8}

Block(kind, len, base) ==
  AsList([k \in 1..len |->
            IF kind = "asc" THEN base + k - 1
            ELSE IF kind = "desc" THEN base + len - k
            ELSE base + ((k - 1) % 2)])

Blocks == {Block(kind, len, base) :
             kind \in BlockKinds, len \in BlockLens, base \in BlockBases}

BlockLists == {Concat(bs) : bs \in UNION {[1..n -> Blocks] : n \in 1..MaxBlocks}}

Inputs == SmallLists \cup BlockLists

(* ---------------------------------------------------------------------- *)
(* State                                                                   *)
(* ---------------------------------------------------------------------- *)
VARIABLES
  L,      \* the list being sorted (the caller's list object)
  M,      \* the auxiliary buffer of SimpleTimSort
  L0,     \* the list as it was passed in
  idr,    \* the IncDecRuns object: dir, i, j
  next1,  \* FuseSegments.next1
  next2,  \* FuseSegments.next2
  S,      \* the list S of segments()
  curr,   \* the variable curr of segments()
  segs,   \* the variable segs of SimpleTimSort and mergeRounds
  runs,   \* the Segments IncDecRuns.next has returned so far
  fused,  \* the Segments FuseSegments.next has returned so far
  pc      \* where the call is

vars == <<L, M, L0, idr, next1, next2, S, curr, segs, runs, fused, pc>>

Init ==
  /\ L \in Inputs
  /\ L0 = L
  /\ M = <<>>
  /\ idr = [dir |-> Inc, i |-> 0, j |-> 0]
  /\ next1 = NoSeg
  /\ next2 = NoSeg
  /\ S = <<>>
  /\ curr = NoSeg
  /\ segs = <<>>
  /\ runs = <<>>
  /\ fused = <<>>
  /\ pc = "start"

(* SimpleTimSort, lines 173-174: a list of at most one element is         *)
(* returned as it is.                                                      *)
ReturnShort ==
  /\ pc = "start"
  /\ Len(L) <= 1
  /\ pc' = "done"
  /\ UNCHANGED <<L, M, L0, idr, next1, next2, S, curr, segs, runs, fused>>

(* Line 175 into segments(), line 91: the scanner and the fuser are built; *)
(* FuseSegments.__init__ pulls two Segments.                               *)
BeginSegments ==
  /\ pc = "start"
  /\ Len(L) > 1
  /\ \E fs \in {FSInit(L)} :
        /\ idr' = fs.idr
        /\ next1' = fs.next1
        /\ next2' = fs.next2
        /\ runs' = fs.pulled
  /\ S' = <<>>
  /\ pc' = "fsnext"
  /\ UNCHANGED <<L, M, L0, curr, segs, fused>>

(* curr = FS.next(), lines 92 and 102.                                     *)
CallFSnext ==
  /\ pc = "fsnext"
  /\ \E r \in {FSnext(L, [idr |-> idr, next1 |-> next1, next2 |-> next2])} :
        /\ idr' = r.idr
        /\ next1' = r.next1
        /\ next2' = r.next2
        /\ curr' = r.seg
        /\ runs' = runs \o r.pulled
        /\ fused' = fused \o r.seg
  /\ pc' = "segloop"
  /\ UNCHANGED <<L, M, L0, S, segs>>

(* while curr: ... (lines 93-101), one pass.                               *)
SegmentsPass ==
  /\ pc = "segloop"
  /\ curr # NoSeg
  /\ \E r \in {segmentsBody(S, curr[1], FSfinished([next1 |-> next1]))} :
        /\ S' = r.S
        /\ pc' = IF r.err THEN "error" ELSE "fsnext"
  /\ UNCHANGED <<L, M, L0, idr, next1, next2, curr, segs, runs, fused>>

(* return S (line 103), back in SimpleTimSort (line 175).                  *)
SegmentsReturn ==
  /\ pc = "segloop"
  /\ curr = NoSeg
  /\ segs' = S
  /\ pc' = "process"
  /\ UNCHANGED <<L, M, L0, idr, next1, next2, S, curr, runs, fused>>

(* processSegments(L, segs, key); M = [None] * len(L) (lines 176-177).     *)
Process ==
  /\ pc = "process"
  /\ L' = processSegments(L, segs)
  /\ M' = AsList([k \in 1..Len(L) |-> None])
  /\ pc' = "merge"
  /\ UNCHANGED <<L0, idr, next1, next2, S, curr, segs, runs, fused>>

(* One pass of the loop of mergeRounds (lines 166-168): a round, then the  *)
(* contents of L and M are exchanged.  An exception leaves the loop.       *)
MergeRoundPass ==
  /\ pc = "merge"
  /\ Len(segs) > 1
  /\ \E r \in {mergeRound(L, segs, M)} :
        IF r.err
        THEN /\ M' = r.M
             /\ pc' = "error"
             /\ UNCHANGED <<L, segs>>
        ELSE /\ segs' = r.segs
             /\ L' = r.M
             /\ M' = L
             /\ pc' = "merge"
  /\ UNCHANGED <<L0, idr, next1, next2, S, curr, runs, fused>>

(* return L (line 169, line 178).                                          *)
MergeReturn ==
  /\ pc = "merge"
  /\ Len(segs) <= 1
  /\ pc' = "done"
  /\ UNCHANGED <<L, M, L0, idr, next1, next2, S, curr, segs, runs, fused>>

Next ==
  \/ ReturnShort
  \/ BeginSegments
  \/ CallFSnext
  \/ SegmentsPass
  \/ SegmentsReturn
  \/ Process
  \/ MergeRoundPass
  \/ MergeReturn

Spec == Init /\ [][Next]_vars

(* ---------------------------------------------------------------------- *)
(* Properties                                                              *)
(* ---------------------------------------------------------------------- *)
(* key(a) <= key(b) under the identity key; Python raises on None.         *)
Leq(a, b) == a # None /\ b # None /\ a <= b

IsSorted(l) == \A k \in 1..(Len(l) - 1) : Leq(l[k], l[k + 1])

IsNonIncreasing(l) == \A k \in 1..(Len(l) - 1) : Leq(l[k + 1], l[k])

Elements(l) == {l[k] : k \in DOMAIN l}

Count(l, v) == Cardinality({k \in DOMAIN l : l[k] = v})

SameElements(a, b) ==
  /\ Len(a) = Len(b)
  /\ Elements(a) = Elements(b)
  /\ \A v \in Elements(a) : Count(a, v) = Count(b, v)

(* sg is a run of segments, each non-empty, each starting where the one    *)
(* before it ends, the first at 0.                                         *)
Contiguous(sg) ==
  /\ \A k \in DOMAIN sg : sg[k].start < sg[k].end
  /\ sg # <<>> => sg[1].start = 0
  /\ \A k \in 1..(Len(sg) - 1) : sg[k].end = sg[k + 1].start

Tiles(sg, n) == sg # <<>> /\ Contiguous(sg) /\ sg[Len(sg)].end = n

Within(sg, n) == Contiguous(sg) /\ (sg # <<>> => sg[Len(sg)].end <= n)

SegmentsReturned == pc \in {"process", "merge", "done"} \/ (pc = "error" /\ segs # <<>>)

(* C1: the list SimpleTimSort returns is in non-decreasing order.          *)
C1_ResultSorted == pc = "done" => IsSorted(L)

(* C2: the list SimpleTimSort returns is a permutation of the input: the   *)
(* same length and the same elements with the same multiplicities.         *)
C2_ResultPermutation == pc = "done" => SameElements(L, L0)

(* C3: no reachable state of the call raises an error.                     *)
C3_NeverRaises == pc # "error"

C5_ShortListSorted ==
  Len(L0) < runThreshold =>
    /\ pc # "error"
    /\ pc = "done" => IsSorted(L) /\ SameElements(L, L0)

C5_Witness ==
  /\ pc = "done"
  /\ Len(L0) < runThreshold
  /\ Len(runs) >= 3
  /\ \E k \in DOMAIN runs : runs[k].tag = Dec
  /\ L # L0
  /\ IsSorted(L)

(* C6: the Segments IncDecRuns.next has returned, those FuseSegments.next  *)
(* has returned and the list S are at every moment non-empty segments      *)
(* laid end to end from 0 within [0, n); once segments() has returned, the *)
(* runs, the fused segments and the current segment list (the one          *)
(* segments() returned, then the one each mergeRound returned) each cover  *)
(* exactly [0, n).                                                         *)
C6_Tiling ==
  Len(L0) >= 2 =>
    /\ Within(runs, Len(L0))
    /\ Within(fused, Len(L0))
    /\ Within(S, Len(L0))
    /\ SegmentsReturned =>
         /\ Tiles(runs, Len(L0))
         /\ Tiles(fused, Len(L0))
         /\ Tiles(S, Len(L0))
         /\ Tiles(segs, Len(L0))

(* A fold-up shortened S against what the fuser returned, and a merge      *)
(* round replaced the segment list.                                        *)
C6_Witness ==
  /\ pc = "merge"
  /\ Len(S) < Len(fused)
  /\ Len(fused) < Len(runs)
  /\ Len(segs) < Len(S)
  /\ Tiles(segs, Len(L0))

(* C7: a merge round over two or more sorted segments leaves, for every    *)
(* Segment [s, e) it returns, the elements of that range of the source in  *)
(* ascending order in the buffer it wrote (which the exchange after the    *)
(* round makes L).                                                         *)
C7_RoundWritesInPlace ==
  [][(/\ pc = "merge"
      /\ Len(segs) >= 2
      /\ \A k \in DOMAIN segs : IsSorted(Slice(L, segs[k].start, segs[k].end)))
     => /\ pc' = "merge"
        /\ \A k \in DOMAIN segs' :
             /\ IsSorted(Slice(L', segs'[k].start, segs'[k].end))
             /\ SameElements(Slice(L', segs'[k].start, segs'[k].end),
                             Slice(L, segs'[k].start, segs'[k].end))]_vars

(* C8 as stated: a Segment FuseSegments.next returns with an Increasing or *)
(* Decreasing tag is at least runThreshold long.                           *)
C8_NoShortTaggedRun ==
  \A k \in DOMAIN fused : fused[k].tag # Unsorted => ~IsShort(fused[k])

(* The runs of the scanner lying in the range of the segment f.            *)
RunsIn(f) == {r \in DOMAIN runs : f.start <= runs[r].start /\ runs[r].end <= f.end}

(* C8 amended: a Segment FuseSegments.next returns is either a run of the  *)
(* scanner returned as it is, tag included, and if shorter than            *)
(* runThreshold then the last run or followed by a run of at least         *)
(* runThreshold; or it is tagged Unsorted and is two or more consecutive   *)
(* runs, each shorter than runThreshold, laid end to end.                  *)
C8_FusedOrOriginal ==
  \A k \in DOMAIN fused :
    LET f == fused[k] IN
    IF f.tag # Unsorted
    THEN \E r \in DOMAIN runs :
           /\ runs[r] = f
           /\ IsShort(f) =>
                \/ f.end = Len(L0)
                \/ r < Len(runs) /\ ~IsShort(runs[r + 1])
    ELSE /\ Cardinality(RunsIn(f)) >= 2
         /\ \A r \in RunsIn(f) : IsShort(runs[r])
         /\ \E r \in RunsIn(f) : runs[r].start = f.start
         /\ \E r \in RunsIn(f) : runs[r].end = f.end

(* A short run returned with its tag ahead of a long run, and a fused      *)
(* block.                                                                  *)
C8_Witness ==
  /\ \E k \in DOMAIN fused :
       fused[k].tag # Unsorted /\ IsShort(fused[k]) /\ fused[k].end < Len(L0)
  /\ \E k \in DOMAIN fused : fused[k].tag = Unsorted

(* C9: right after processSegments every segment's range of L is           *)
(* non-decreasing; in the list as passed in, the range of an               *)
(* Increasing-tagged segment was non-decreasing and that of a              *)
(* Decreasing-tagged segment non-increasing, fold-up included.             *)
C9_SegmentsSorted ==
  (pc = "merge" /\ segs = S) =>
    \A k \in DOMAIN segs :
      LET seg == segs[k] IN
      /\ IsSorted(Slice(L, seg.start, seg.end))
      /\ seg.tag = Inc => IsSorted(Slice(L0, seg.start, seg.end))
      /\ seg.tag = Dec => IsNonIncreasing(Slice(L0, seg.start, seg.end))

(* A segment extended by the fold-up, a reversed segment and an            *)
(* insertion-sorted one.                                                   *)
C9_Witness ==
  /\ pc = "merge"
  /\ segs = S
  /\ \E k \in DOMAIN S : S[k].tag # Unsorted /\ ~(S[k] \in {fused[f] : f \in DOMAIN fused})
  /\ \E k \in DOMAIN S : S[k].tag = Dec
  /\ L # L0

(* The cut points and sub-blocks C10 describes for a block [start,         *)
(* start+n).                                                               *)
SplitCut(start, n, i) == start + (n * i) \div (n \div blockMin)

SplitBlocks(start, n) ==
  [i \in 1..(n \div blockMin) |->
     Segment(SplitCut(start, n, i - 1), SplitCut(start, n, i), Unsorted)]

(* C10: a pass of the loop of segments() over an Unsorted block longer     *)
(* than blockMax appends its n // blockMin >= 2 sub-blocks, cut at         *)
(* start + (n*i)//k, each between blockMin and blockMax long and no two    *)
(* differing in length by more than one, so that no Unsorted segment of S  *)
(* is longer than blockMax; and the loop goes on.                          *)
C10_BlockSplit ==
  [][(/\ pc = "segloop"
      /\ curr # NoSeg
      /\ curr[1].tag = Unsorted
      /\ SegLen(curr[1]) > blockMax)
     => /\ pc' = "fsnext"
        /\ SegLen(curr[1]) \div blockMin >= 2
        /\ S' = S \o SplitBlocks(curr[1].start, SegLen(curr[1]))
        /\ \A k \in (Len(S) + 1)..Len(S') :
             /\ blockMin <= SegLen(S'[k]) /\ SegLen(S'[k]) <= blockMax
             /\ \A h \in (Len(S) + 1)..Len(S') :
                  SegLen(S'[k]) - SegLen(S'[h]) <= 1
        /\ \A k \in DOMAIN S' :
             S'[k].tag = Unsorted => SegLen(S'[k]) <= blockMax]_vars

====
